---- MODULE Spec2Model ----
(***************************************************************************)
(* Model of bryanjeal/go-nonce: the nonce lifecycle (New, Check, Consume,  *)
(* CheckThenConsume, Get, Shutdown), its two stores (service.inmem.go, a   *)
(* mutex-guarded map; service.sqlx.go, an SQL table) and the background    *)
(* removeExpired goroutine.                                                *)
(*                                                                         *)
(* Time is counted in ticks, TicksPerSecond of them to a second, so that   *)
(* instants and durations with a sub-second part exist.  Every store       *)
(* access that the code performs under one lock or in one SQL statement    *)
(* is one step; the steps of one call are separate actions, so calls of    *)
(* different goroutines interleave exactly where the code lets them.  A    *)
(* call reads the clock in the step of the store access next to it, but    *)
(* in RaceSpec, where newNonce is a step of its own.  SQL statements are   *)
(* taken to succeed, but in FaultSpec, where those of a sweep can fail.    *)
(***************************************************************************)
EXTENDS Integers, Sequences, FiniteSets, TLC

(* ---------------------------------------------------------------- bounds *)
\* the number of nonces ever created in a behaviour
MaxNonces == 2
\* resolution of the clock: ticks per second
TicksPerSecond == 2
\* the number of ticks the clock advances in a behaviour
MaxTicks == 2
\* the largest expiresIn handed to New, in ticks
MaxExpiresIn == 2
\* the same two bounds where two callers run concurrently
ConcTicks == 1
ConcExpiresIn == 1

(* ------------------------------------------------------ program constants *)
\* length of a token: base64 of a 64-byte digest (service.go:127)
TokenLen == 88

(* ----------------------------------------------------------------- inputs *)
\* the caller goroutines
Callers == {1, 2}
\* the single caller of a sequential execution
SeqCaller == CHOOSE c \in Callers : \A b \in Callers : c <= b
Actions == {"reset", "confirm"}
\* users that own nonces
Users == {"u1"}
\* a user id that owns nothing (the tests pass uuid.NewV4() for it)
Stranger == "u9"
CheckUsers == Users \cup {Stranger}
ExpiresIns == 0..MaxExpiresIn
ConcExpiresIns == 0..ConcExpiresIn
\* the clock never reads the epoch: it starts one second after it
StartClock == TicksPerSecond

\* the white space strings.TrimSpace removes, as one-character strings
IsSpace(ch) == ch \in {" ", "\t", "\n", "\r", "\f"}

\* uuid.Nil
NilUUID == 0

(* ----------------------------------------------------------------- errors *)
Nil == "nil"
ErrNoToken == "no token supplied"
ErrInvalidToken == "invalid token"
ErrTokenUsed == "duplicate submission"
ErrTokenExpired == "token expired"
ErrTokenNotFound == "token not found"
\* helpers.Crypto.GenerateRandomKey failed
ErrRandom == "random source unavailable"

(* ------------------------------------------------------------- the record *)
\* Nonce{}: the zero value of the struct
ZeroNonce ==
  [ID |-> NilUUID, UserID |-> "", Token |-> "", Action |-> "", Salt |-> 0,
   IsUsed |-> FALSE, IsValid |-> FALSE, CreatedAt |-> 0, ExpiresAt |-> 0]

\* sha512 of "action::uid::unix::salt", base64url-encoded: 88 characters, the
\* last two of them padding.  The salt is 16 fresh random bytes, so the digest
\* is modelled as injective in the salt: its first character tells the salts
\* apart.
Hash(salt) ==
  SubSeq("BCDEFGHIJKLMNOPQRSTUVWXYZ", salt, salt)
    \o "AAAAAAAAAAAAAAAAAAAAAAAAAAAAAAAAAAAAAAAAAAAAAAAAAAAAAAAAAAAAAAAAAAAAAAAAAAAAAAAAAAAAA=="

\* tokens a caller may present that no New ever returned: the empty one, a
\* blank one, "x", and TokenLen blanks
BadTokens ==
  { "", " \t", "x",
    "                                                                                        " }

\* the tokens New can return
GoodTokens == {Hash(k) : k \in 1..MaxNonces}

TokenInputs == BadTokens \cup GoodTokens

RECURSIVE TrimLeft(_)
TrimLeft(s) ==
  IF Len(s) = 0 THEN s
  ELSE IF IsSpace(SubSeq(s, 1, 1)) THEN TrimLeft(SubSeq(s, 2, Len(s))) ELSE s

RECURSIVE TrimRight(_)
TrimRight(s) ==
  IF Len(s) = 0 THEN s
  ELSE IF IsSpace(SubSeq(s, Len(s), Len(s))) THEN TrimRight(SubSeq(s, 1, Len(s) - 1))
  ELSE s

\* strings.TrimSpace
TrimSpace(s) == TrimRight(TrimLeft(s))

\* a plausible slip: the blank test without TrimSpace
checkTokenNoTrim(token) ==
  IF Len(token) = 0 THEN ErrNoToken
  ELSE IF Len(token) # TokenLen THEN ErrInvalidToken
  ELSE Nil

checkToken(token) ==
  IF Len(TrimSpace(token)) = 0 THEN ErrNoToken
  ELSE IF Len(token) # TokenLen THEN ErrInvalidToken
  ELSE Nil

\* checkToken of each token a caller presents
TokenErr == [t \in TokenInputs |-> checkToken(t)]

\* time.Time.Truncate(time.Second)
Truncate(t) == (t \div TicksPerSecond) * TicksPerSecond

\* time.Time.Unix()
Unix(t) == t \div TicksPerSecond

newNonce(action, uid, expiresIn, now, salt) ==
  [ID |-> NilUUID, UserID |-> uid, Token |-> Hash(salt), Action |-> action,
   Salt |-> salt, IsUsed |-> FALSE, IsValid |-> TRUE,
   CreatedAt |-> Unix(now), ExpiresAt |-> Truncate(now + expiresIn)]

\* a plausible slip: the expiry test lets the deadline instant itself pass
checkNonceLate(n, action, uid, now) ==
  IF n.IsValid = FALSE \/ n.Action # action \/ n.UserID # uid
    THEN ErrInvalidToken
  ELSE IF n.IsUsed = TRUE THEN ErrTokenUsed
  ELSE IF n.ExpiresAt < now THEN ErrTokenExpired
  ELSE Nil

\* a plausible slip: the used test ahead of the validity test
checkNonceUsedFirst(n, action, uid, now) ==
  IF n.IsUsed = TRUE THEN ErrTokenUsed
  ELSE IF n.IsValid = FALSE \/ n.Action # action \/ n.UserID # uid
    THEN ErrInvalidToken
  ELSE IF (n.ExpiresAt > now) = FALSE THEN ErrTokenExpired
  ELSE Nil

checkNonce(n, action, uid, now) ==
  IF n.IsValid = FALSE \/ n.Action # action \/ n.UserID # uid
    THEN ErrInvalidToken
  ELSE IF n.IsUsed = TRUE THEN ErrTokenUsed
  ELSE IF (n.ExpiresAt > now) = FALSE THEN ErrTokenExpired
  ELSE Nil

(* ------------------------------------------------------------------ state *)
VARIABLES
  backend,      \* which Service was constructed: NewInMemoryService or NewService
  store,        \* nonceMap / the rows of table nonce, keyed by token
  clock,        \* time.Now(), in ticks
  nextId,       \* how many nonces have been created (source of fresh uuids and salts)
  pc,           \* where each caller goroutine stands in its call
  loc,          \* the locals of each caller's call in progress
  sweeper,      \* the removeExpired goroutine: "running" or "exited"
  last,         \* what the latest step returned to its caller (NoEvent if nothing)
  okConsumes,   \* history: per nonce, how many calls returned a successful consume
  completedNew  \* history: the New calls that have returned, in order: the id
                \* of the nonce, its action and user, and whether expiresIn was 0

vars == <<backend, store, clock, nextId, pc, loc, sweeper, last, okConsumes,
          completedNew>>

NoLoc == [op |-> "", tok |-> "", n |-> ZeroNonce, expiresIn |-> 0]
NoEvent == [op |-> "", err |-> Nil, n |-> ZeroNonce, access |-> FALSE]

\* what a call returns: its error, its Nonce, and whether it got to the store
Event(op, err, n, access) == [op |-> op, err |-> err, n |-> n, access |-> access]

Stored(st) == {st[t] : t \in DOMAIN st}

Put(st, n) == [t \in DOMAIN st \cup {n.Token} |-> IF t = n.Token THEN n ELSE st[t]]

(* ------------------------------------------------------------- the stores *)
\* saveNonce, in memory: assign an id to a new nonce, then nonceMap[n.Token] = n
InMemAssignID(n, fresh) == IF n.ID = NilUUID THEN [n EXCEPT !.ID = fresh] ELSE n

InMemSaveNonce(st, n) == Put(st, n)

\* saveNonce, sqlx: INSERT a nonce without id, otherwise
\* UPDATE nonce SET is_used, is_valid WHERE id
SqlxSaveNonce(st, n, fresh) ==
  IF n.ID = NilUUID
    THEN Put(st, [n EXCEPT !.ID = fresh])
    ELSE [t \in DOMAIN st |->
            IF st[t].ID = n.ID
              THEN [st[t] EXCEPT !.IsUsed = n.IsUsed, !.IsValid = n.IsValid]
              ELSE st[t]]

\* a plausible slip: only nonces of an earlier second are superseded
InvalidateOlderOnly(st, n) ==
  [t \in DOMAIN st |->
     IF st[t].IsValid /\ st[t].UserID = n.UserID /\ st[t].Action = n.Action
        /\ st[t].CreatedAt < n.CreatedAt
       THEN [st[t] EXCEPT !.IsValid = FALSE]
       ELSE st[t]]

\* New's second step, both stores: every other valid nonce of the same
\* user and action becomes invalid
Invalidate(st, n) ==
  [t \in DOMAIN st |->
     IF st[t].IsValid /\ st[t].UserID = n.UserID /\ st[t].Action = n.Action
        /\ st[t].ID # n.ID
       THEN [st[t] EXCEPT !.IsValid = FALSE]
       ELSE st[t]]

\* a plausible slip: the write of Consume dropped
ConsumeWriteNothing(be, st, n) == st

\* Consume's write.  In memory: n.IsUsed = true; saveNonce(n), the whole record
\* as it was read.  sqlx: UPDATE nonce SET is_used = 1 WHERE token = $1
ConsumeWrite(be, st, n) ==
  IF be = "inmem"
    THEN InMemSaveNonce(st, InMemAssignID([n EXCEPT !.IsUsed = TRUE], NilUUID))
    ELSE [t \in DOMAIN st |->
            IF t = n.Token THEN [st[t] EXCEPT !.IsUsed = TRUE] ELSE st[t]]

\* a plausible slip: the sweep keeps what it should delete
DeleteNothing(st, now) == st

\* a plausible slip: the sweep also takes the records whose deadline is now
DeleteExpiredOrDue(st, now) ==
  [t \in {x \in DOMAIN st : ~(st[x].ExpiresAt <= now)} |-> st[t]]

\* one pass of removeExpired, both stores: delete what expired before now
DeleteExpired(st, now) ==
  [t \in {x \in DOMAIN st : ~(st[x].ExpiresAt < now)} |-> st[t]]

(* -------------------------------------------------------------------- Get *)
\* the orders in which range over a map can visit the records of S
Orderings(S) ==
  {f \in [1..Cardinality(S) -> S] : \A i, j \in 1..Cardinality(S) : f[i] = f[j] => i = j}

\* the loop of Get in memory over nonces[i..]
RECURSIVE NewestFrom(_, _, _)
NewestFrom(newestN, nonces, i) ==
  IF i > Len(nonces) THEN newestN
  ELSE IF newestN.CreatedAt < nonces[i].CreatedAt /\ nonces[i].IsValid
    THEN NewestFrom(nonces[i], nonces, i + 1)
    ELSE NewestFrom(newestN, nonces, i + 1)

\* Get in memory, for one order of the map: nonces starts as make([]Nonce, 1, 1)
InMemGetIn(order) ==
  LET nonces == <<ZeroNonce>> \o order
      newestN == NewestFrom(nonces[1], nonces, 1)
  IN  IF Len(nonces) = 0 THEN [n |-> ZeroNonce, err |-> ErrTokenNotFound]
      ELSE IF Len(nonces) = 1 THEN [n |-> nonces[1], err |-> Nil]
      ELSE IF newestN.IsValid = FALSE
        THEN [n |-> ZeroNonce, err |-> ErrTokenNotFound]
        ELSE [n |-> newestN, err |-> Nil]

\* Get, sqlx: SELECT ... WHERE action AND user_id AND is_valid=1 LIMIT 1,
\* any one of the matching rows
SqlxGet(st, action, uid) ==
  LET rows == {n \in Stored(st) : n.Action = action /\ n.UserID = uid /\ n.IsValid}
  IN  IF rows = {} THEN {[n |-> ZeroNonce, err |-> ErrTokenNotFound]}
      ELSE {[n |-> r, err |-> Nil] : r \in rows}

\* the results Get may return
GetResults(be, st, action, uid) ==
  IF be = "inmem"
    THEN {InMemGetIn(o) :
            o \in Orderings({n \in Stored(st) : n.Action = action /\ n.UserID = uid})}
    ELSE SqlxGet(st, action, uid)

(* ------------------------------------------------------------------- Init *)
Init ==
  /\ backend \in {"inmem", "sqlx"}
  /\ store = << >>
  /\ clock = StartClock
  /\ nextId = 0
  /\ pc = [c \in Callers |-> "idle"]
  /\ loc = [c \in Callers |-> NoLoc]
  /\ sweeper = "running"
  /\ last = NoEvent
  /\ okConsumes = [k \in 1..MaxNonces |-> 0]
  /\ completedNew = << >>

Return(c, ev) ==
  /\ pc' = [pc EXCEPT ![c] = "idle"]
  /\ loc' = [loc EXCEPT ![c] = NoLoc]
  /\ last' = ev

Goto(c, label, l) ==
  /\ pc' = [pc EXCEPT ![c] = label]
  /\ loc' = [loc EXCEPT ![c] = l]
  /\ last' = NoEvent

(* -------------------------------------------------------------------- New *)
\* newNonce fails: the random source is unavailable
NewNoRandom(c, action, uid) ==
  /\ pc[c] = "idle"
  /\ Return(c, Event("New", ErrRandom, ZeroNonce, FALSE))
  /\ UNCHANGED <<backend, store, clock, nextId, sweeper, okConsumes, completedNew>>

\* newNonce and saveNonce
NewSave(c, action, uid, expiresIn) ==
  /\ pc[c] = "idle"
  /\ nextId < MaxNonces
  /\ LET fresh == nextId + 1
         n0 == newNonce(action, uid, expiresIn, clock, fresh)
         n == InMemAssignID(n0, fresh)
     IN  /\ store' = IF backend = "inmem" THEN InMemSaveNonce(store, n)
                     ELSE SqlxSaveNonce(store, n0, fresh)
         /\ Goto(c, "new_invalidate",
                 [NoLoc EXCEPT !.op = "New", !.n = n, !.expiresIn = expiresIn])
  /\ nextId' = nextId + 1
  /\ UNCHANGED <<backend, clock, sweeper, okConsumes, completedNew>>

\* the invalidation of the other nonces, and the return
NewInvalidate(c) ==
  /\ pc[c] = "new_invalidate"
  /\ store' = Invalidate(store, loc[c].n)
  /\ Return(c, Event("New", Nil, loc[c].n, TRUE))
  /\ completedNew' = Append(completedNew,
                             [id |-> loc[c].n.ID, action |-> loc[c].n.Action,
                              uid |-> loc[c].n.UserID,
                              zero |-> loc[c].expiresIn = 0])
  /\ UNCHANGED <<backend, clock, nextId, sweeper, okConsumes>>

\* New in two steps, for the executions where another goroutine runs between
\* newNonce, which reads the clock, and saveNonce: first newNonce alone
NewNonce(c, action, uid, expiresIn) ==
  /\ pc[c] = "idle"
  /\ nextId < MaxNonces
  /\ Goto(c, "new_save",
          [NoLoc EXCEPT !.op = "New", !.expiresIn = expiresIn,
                        !.n = newNonce(action, uid, expiresIn, clock, nextId + 1)])
  /\ nextId' = nextId + 1
  /\ UNCHANGED <<backend, store, clock, sweeper, okConsumes, completedNew>>

\* then saveNonce of the nonce made
NewPersist(c) ==
  /\ pc[c] = "new_save"
  /\ LET n0 == loc[c].n
         n == InMemAssignID(n0, n0.Salt)
     IN  /\ store' = IF backend = "inmem" THEN InMemSaveNonce(store, n)
                     ELSE SqlxSaveNonce(store, n0, n0.Salt)
         /\ Goto(c, "new_invalidate", [loc[c] EXCEPT !.n = n])
  /\ UNCHANGED <<backend, clock, nextId, sweeper, okConsumes, completedNew>>

(* ------------------------------------------------ Check, CheckThenConsume *)
\* what Check returns: checkToken, the lookup by token, checkNonce
CheckResult(st, token, action, uid, now) ==
  IF TokenErr[token] # Nil THEN TokenErr[token]
  ELSE IF token \notin DOMAIN st THEN ErrTokenNotFound
  ELSE checkNonce(st[token], action, uid, now)

\* a plausible slip: Check marks the nonce it accepts as used
CheckMarksUsed(c, op, token, action, uid) ==
  /\ pc[c] = "idle"
  /\ op \in {"Check", "CheckThenConsume"}
  /\ LET err == CheckResult(store, token, action, uid, clock)
     IN  /\ IF op = "CheckThenConsume" /\ err = Nil
              THEN Goto(c, "consume_get", [NoLoc EXCEPT !.op = op, !.tok = token])
              ELSE Return(c, Event(op, err, ZeroNonce, TokenErr[token] = Nil))
         /\ store' = IF err = Nil
                       THEN [store EXCEPT ![token] = [@ EXCEPT !.IsUsed = TRUE]]
                       ELSE store
  /\ UNCHANGED <<backend, clock, nextId, sweeper, okConsumes, completedNew>>

\* Check called as op: by the caller, or by CheckThenConsume, which goes on
\* to Consume when Check returns nil
Check(c, op, token, action, uid) ==
  /\ pc[c] = "idle"
  /\ op \in {"Check", "CheckThenConsume"}
  /\ LET err == CheckResult(store, token, action, uid, clock)
     IN  IF op = "CheckThenConsume" /\ err = Nil
           THEN Goto(c, "consume_get", [NoLoc EXCEPT !.op = op, !.tok = token])
           ELSE Return(c, Event(op, err, ZeroNonce, TokenErr[token] = Nil))
  /\ UNCHANGED <<backend, store, clock, nextId, sweeper, okConsumes, completedNew>>

(* ---------------------------------------------------------------- Consume *)
\* checkToken, the lookup by token and the used test of Consume
ConsumeLookup(c, op, token) ==
  /\ IF TokenErr[token] # Nil
       THEN Return(c, Event(op, TokenErr[token], ZeroNonce, op # "Consume"))
     ELSE IF token \notin DOMAIN store
       THEN Return(c, Event(op, ErrTokenNotFound, ZeroNonce, TRUE))
     ELSE IF store[token].IsUsed = TRUE
       THEN Return(c, Event(op, ErrTokenUsed, ZeroNonce, TRUE))
     ELSE Goto(c, "consume_save",
               [NoLoc EXCEPT !.op = op, !.tok = token, !.n = store[token]])
  /\ UNCHANGED <<backend, store, clock, nextId, sweeper, okConsumes, completedNew>>

\* Consume called by the caller
ConsumeGet(c, token) ==
  /\ pc[c] = "idle"
  /\ ConsumeLookup(c, "Consume", token)

\* Consume called by CheckThenConsume after its Check passed
ThenConsumeGet(c) ==
  /\ pc[c] = "consume_get"
  /\ ConsumeLookup(c, loc[c].op, loc[c].tok)

\* the write of the used flag, and the return of the record
ConsumeSave(c) ==
  /\ pc[c] = "consume_save"
  /\ store' = ConsumeWrite(backend, store, loc[c].n)
  /\ Return(c, Event(loc[c].op, Nil, [loc[c].n EXCEPT !.IsUsed = TRUE], TRUE))
  /\ okConsumes' = [okConsumes EXCEPT ![loc[c].n.ID] = IF @ < 2 THEN @ + 1 ELSE @]
  /\ UNCHANGED <<backend, clock, nextId, sweeper, completedNew>>

(* -------------------------------------------------------------------- Get *)
Get(c, action, uid) ==
  /\ pc[c] = "idle"
  /\ \E r \in GetResults(backend, store, action, uid) :
       Return(c, Event("Get", r.err, r.n, TRUE))
  /\ UNCHANGED <<backend, store, clock, nextId, sweeper, okConsumes, completedNew>>

(* --------------------------------------------------- Shutdown, the sweeper *)
\* s.quit <- struct{}{}: the caller blocks until the sweeper receives
ShutdownSend(c) ==
  /\ pc[c] = "idle"
  /\ Goto(c, "shutdown", [NoLoc EXCEPT !.op = "Shutdown"])
  /\ UNCHANGED <<backend, store, clock, nextId, sweeper, okConsumes, completedNew>>

\* a plausible slip: the sweeper sweeps once more when it receives from quit
SweeperQuitSweeps ==
  /\ sweeper = "running"
  /\ \E c \in Callers :
       /\ pc[c] = "shutdown"
       /\ Return(c, Event("Shutdown", Nil, ZeroNonce, FALSE))
  /\ sweeper' = "exited"
  /\ store' = DeleteExpired(store, clock)
  /\ UNCHANGED <<backend, clock, nextId, okConsumes, completedNew>>

\* select, case <-s.quit: a sender is waiting; the goroutine returns
SweeperQuit ==
  /\ sweeper = "running"
  /\ \E c \in Callers :
       /\ pc[c] = "shutdown"
       /\ Return(c, Event("Shutdown", Nil, ZeroNonce, FALSE))
  /\ sweeper' = "exited"
  /\ UNCHANGED <<backend, store, clock, nextId, okConsumes, completedNew>>

\* select, default: no sender is waiting; one pass over the store, and then
\* time.Sleep(RemoveExpiredInterval), of any length
SweeperPass ==
  /\ sweeper = "running"
  /\ \A c \in Callers : pc[c] # "shutdown"
  /\ store' = DeleteExpired(store, clock)
  /\ last' = NoEvent
  /\ UNCHANGED <<backend, clock, nextId, pc, loc, sweeper, okConsumes, completedNew>>

Sweeper == SweeperQuit \/ SweeperPass

\* the steps of the sqlx sweep at which the database can fail
SweepFaults == {"begin", "exec", "commit"}

\* select, default, sqlx, with the database failing at step f.  Beginx fails:
\* the error is logged and the pass goes on to tx.Exec with the nil tx that
\* Beginx returned, a nil pointer dereference, and the panic of the goroutine
\* ends the process.  Exec fails: Rollback, the error is logged, Commit fails
\* in its turn and is logged, nothing is deleted.  Commit fails: the error is
\* logged, nothing is deleted.  Then time.Sleep, and the loop goes on.
SweeperFault(f) ==
  /\ backend = "sqlx"
  /\ sweeper = "running"
  /\ \A c \in Callers : pc[c] # "shutdown"
  /\ f \in SweepFaults
  /\ sweeper' = IF f = "begin" THEN "panicked" ELSE "running"
  /\ last' = NoEvent
  /\ UNCHANGED <<backend, store, clock, nextId, pc, loc, okConsumes, completedNew>>

\* the clock advances, at most limit ticks in all
Tick(limit) ==
  /\ clock < StartClock + limit
  /\ clock' = clock + 1
  /\ last' = NoEvent
  /\ UNCHANGED <<backend, store, nextId, pc, loc, sweeper, okConsumes, completedNew>>

(* --------------------------------------------------------- specifications *)
\* caller c begins a call, presenting a token out of toks and, to New, a
\* duration out of ds
Begin(c, toks, ds) ==
  \/ \E a \in Actions, u \in Users : NewNoRandom(c, a, u)
  \/ \E a \in Actions, u \in Users, d \in ds : NewSave(c, a, u, d)
  \/ \E op \in {"Check", "CheckThenConsume"}, t \in toks,
        a \in Actions, u \in CheckUsers : Check(c, op, t, a, u)
  \/ \E t \in toks : ConsumeGet(c, t)
  \/ \E a \in Actions, u \in CheckUsers : Get(c, a, u)
  \/ ShutdownSend(c)

\* caller c goes on with the call it is in
Continue(c) == NewInvalidate(c) \/ ThenConsumeGet(c) \/ ConsumeSave(c)

\* Callers are interchangeable, so a call begins on the first idle one
MayBegin(c) == \A b \in Callers : pc[b] = "idle" => ~(b < c)

\* any interleaving of the callers, the sweeper and the clock
Next ==
  \/ \E c \in Callers : (MayBegin(c) /\ Begin(c, GoodTokens, ConcExpiresIns)) \/ Continue(c)
  \/ Sweeper
  \/ Tick(ConcTicks)

Spec == Init /\ [][Next]_vars

\* no call of the sequential caller is in progress
Quiet == pc[SeqCaller] \in {"idle", "shutdown"}

\* a sequential execution: one caller, and neither the sweeper nor the clock
\* moves while a call is in progress
SeqNext ==
  \/ Begin(SeqCaller, GoodTokens, ExpiresIns)
  \/ Continue(SeqCaller)
  \/ Quiet /\ Sweeper
  \/ Quiet /\ Tick(MaxTicks)

SeqSpec == Init /\ [][SeqNext]_vars

\* a sequential execution whose caller also presents malformed tokens
ShapeNext ==
  \/ Begin(SeqCaller, TokenInputs, ConcExpiresIns)
  \/ Continue(SeqCaller)
  \/ Quiet /\ Sweeper
  \/ Quiet /\ Tick(ConcTicks)

ShapeSpec == Init /\ [][ShapeNext]_vars

\* one caller, with the sweeper and the clock free to move at any point of a
\* call; the sweeper goroutine is scheduled again and again, and its Sleep ends
LiveNext ==
  \/ Begin(SeqCaller, GoodTokens, ExpiresIns)
  \/ Continue(SeqCaller)
  \/ Sweeper
  \/ Tick(MaxTicks)

LiveSpec == Init /\ [][LiveNext]_vars /\ WF_vars(SweeperPass)

\* the same, where the sweeper goroutine also gets to its select whenever a
\* sender waits on quit
StopSpec ==
  Init /\ [][LiveNext]_vars /\ WF_vars(SweeperPass) /\ WF_vars(SweeperQuit)

\* one caller, the sweeper and the clock, with a database that can fail during
\* a sweep; nothing runs once a panic has ended the process
Alive == sweeper # "panicked"

FaultNext ==
  \/ Alive /\ Begin(SeqCaller, GoodTokens, ExpiresIns)
  \/ Alive /\ Continue(SeqCaller)
  \/ Alive /\ Sweeper
  \/ Alive /\ Tick(MaxTicks)
  \/ \E f \in SweepFaults : SweeperFault(f)

FaultSpec == Init /\ [][FaultNext]_vars

\* New and Get calls of two goroutines, where any step of one may fall
\* between two steps of the other, the steps of New being newNonce, saveNonce
\* and the invalidation
RaceNext ==
  \/ \E c \in Callers, a \in Actions, u \in Users, d \in ConcExpiresIns :
       MayBegin(c) /\ NewNonce(c, a, u, d)
  \/ \E c \in Callers, a \in Actions, u \in CheckUsers :
       MayBegin(c) /\ Get(c, a, u)
  \/ \E c \in Callers : NewPersist(c) \/ NewInvalidate(c)
  \/ Tick(MaxTicks)

RaceSpec == Init /\ [][RaceNext]_vars

(* ----------------------------------------------------------------- claims *)
Ids == 1..MaxNonces

\* some caller is between the save and the invalidation of a New for (a, u)
NewInFlight(a, u) ==
  \E c \in Callers :
    pc[c] = "new_invalidate" /\ loc[c].n.Action = a /\ loc[c].n.UserID = u

ValidFor(a, u) == {n \in Stored(store) : n.Action = a /\ n.UserID = u /\ n.IsValid}

\* C1: of all the Consume and CheckThenConsume calls on one token, however
\* they interleave, at most one returns success.
C1_SingleUse == \A k \in Ids : okConsumes[k] <= 1

\* C2: in a sequential execution, Consume on a stored unused nonce goes on to
\* its write and returns nil with a record that is used, and the stored record
\* is used then; Consume on a stored token that a call has consumed returns
\* ErrTokenUsed and leaves the store as it was.
C2_ConsumeOnce ==
  [][ /\ \A t \in GoodTokens :
           (ConsumeGet(SeqCaller, t) /\ t \in DOMAIN store) =>
             /\ store[t].IsUsed = FALSE =>
                  pc'[SeqCaller] = "consume_save" /\ loc'[SeqCaller].n = store[t]
             /\ okConsumes[store[t].ID] > 0 =>
                  last' = Event("Consume", ErrTokenUsed, ZeroNonce, TRUE) /\ store' = store
      /\ (ConsumeSave(SeqCaller) /\ loc[SeqCaller].op = "Consume") =>
           /\ last'.op = "Consume" /\ last'.err = Nil
           /\ last'.n = [loc[SeqCaller].n EXCEPT !.IsUsed = TRUE]
           /\ loc[SeqCaller].tok \in DOMAIN store'
           /\ store'[loc[SeqCaller].tok] = [store[loc[SeqCaller].tok] EXCEPT !.IsUsed = TRUE]
    ]_vars

\* a second Consume of the only nonce has returned ErrTokenUsed
C2_Witness ==
  /\ nextId = 1 /\ okConsumes[1] = 1
  /\ Hash(1) \in DOMAIN store /\ store[Hash(1)].IsUsed
  /\ last.op = "Consume" /\ last.err = ErrTokenUsed

\* the nonce of token t is Active for (a, u): valid, unused, unexpired, matching
Active(t, a, u) ==
  /\ t \in DOMAIN store
  /\ store[t].IsValid /\ ~store[t].IsUsed /\ store[t].ExpiresAt > clock
  /\ store[t].Action = a /\ store[t].UserID = u

\* C3: in a sequential execution, CheckThenConsume on an Active nonce passes
\* its Check, finds the record unused, writes the used flag and returns nil
\* with a used record; the same call made again next returns ErrTokenUsed.
C3_CheckThenConsume ==
  [][ /\ \A t \in GoodTokens, a \in Actions, u \in CheckUsers :
           Check(SeqCaller, "CheckThenConsume", t, a, u) =>
             /\ Active(t, a, u) => pc'[SeqCaller] = "consume_get"
             /\ (last.op = "CheckThenConsume" /\ last.err = Nil /\ last.n.Token = t
                 /\ last.n.Action = a /\ last.n.UserID = u)
                  => last'.op = "CheckThenConsume" /\ last'.err = ErrTokenUsed
      /\ ThenConsumeGet(SeqCaller) => pc'[SeqCaller] = "consume_save"
      /\ (ConsumeSave(SeqCaller) /\ loc[SeqCaller].op = "CheckThenConsume") =>
           /\ last'.op = "CheckThenConsume" /\ last'.err = Nil /\ last'.n.IsUsed
           /\ last'.n.Token = loc[SeqCaller].tok
           /\ loc[SeqCaller].tok \in DOMAIN store'
           /\ store'[loc[SeqCaller].tok].IsUsed
    ]_vars

\* a CheckThenConsume of the only nonce, consumed once and still valid, has
\* returned ErrTokenUsed
C3_Witness ==
  /\ nextId = 1 /\ okConsumes[1] = 1
  /\ Hash(1) \in DOMAIN store /\ store[Hash(1)].IsValid /\ store[Hash(1)].IsUsed
  /\ last.op = "CheckThenConsume" /\ last.err = ErrTokenUsed

\* C4: once a New for (a, u) has returned, Check(t, a, u) yields ErrInvalidToken
\* for the token t of every stored nonce that an earlier returned New created
\* for (a, u).
C4_Superseded ==
  \A i, j \in 1..Len(completedNew) :
    (/\ i < j
     /\ completedNew[i].action = completedNew[j].action
     /\ completedNew[i].uid = completedNew[j].uid
     /\ Hash(completedNew[i].id) \in DOMAIN store)
      => CheckResult(store, Hash(completedNew[i].id), completedNew[i].action,
                     completedNew[i].uid, clock) = ErrInvalidToken

\* C5: whenever no New for (a, u) is between its save and its invalidation, at
\* most one stored record of (a, u) is valid.
C5_OneValid ==
  \A a \in Actions, u \in Users :
    ~NewInFlight(a, u) => Cardinality(ValidFor(a, u)) <= 1

\* C6: Check on a token found in the store returns ErrInvalidToken if the record
\* is invalid or of another action or user, else ErrTokenUsed if it is used,
\* else ErrTokenExpired if its deadline is not after now, else nil.
C6_CheckOrder ==
  [][ \A t \in GoodTokens, a \in Actions, u \in CheckUsers :
        (Check(SeqCaller, "Check", t, a, u) /\ t \in DOMAIN store) =>
          /\ last'.op = "Check"
          /\ last'.err =
               IF ~store[t].IsValid \/ store[t].Action # a \/ store[t].UserID # u
                 THEN ErrInvalidToken
               ELSE IF store[t].IsUsed THEN ErrTokenUsed
               ELSE IF ~(store[t].ExpiresAt > clock) THEN ErrTokenExpired
               ELSE Nil
    ]_vars

\* Check has returned ErrInvalidToken where every stored record is at once
\* invalid, used and expired
C6_Witness ==
  /\ DOMAIN store # {}
  /\ \A n \in Stored(store) : ~n.IsValid /\ n.IsUsed /\ n.ExpiresAt <= clock
  /\ last.op = "Check" /\ last.err = ErrInvalidToken

\* every character of s is white space
AllBlank(s) == \A i \in 1..Len(s) : IsSpace(SubSeq(s, i, i))

\* the tokens presented that are blank, or not TokenLen characters long
Malformed == {t \in TokenInputs : AllBlank(t) \/ Len(t) # TokenLen}

\* what the shape of each malformed token yields
ShapeErr == [t \in Malformed |-> IF AllBlank(t) THEN ErrNoToken ELSE ErrInvalidToken]

\* C7: Check, Consume and CheckThenConsume given a blank token return
\* ErrNoToken, and given a non-blank token whose length is not 88 return
\* ErrInvalidToken; in both cases without reading or changing the store.
C7_ShapeFirst ==
  [][ \A t \in Malformed :
        /\ \A op \in {"Check", "CheckThenConsume"}, a \in Actions, u \in CheckUsers :
             Check(SeqCaller, op, t, a, u) =>
               /\ last' = Event(op, ShapeErr[t], ZeroNonce, FALSE)
               /\ store' = store
        /\ ConsumeGet(SeqCaller, t) =>
             /\ last' = Event("Consume", ShapeErr[t], ZeroNonce, FALSE)
             /\ store' = store
    ]_vars

\* a call has returned ErrNoToken while the store holds a record
C7_Witness ==
  /\ DOMAIN store # {}
  /\ last.op \in {"Check", "CheckThenConsume", "Consume"}
  /\ last.err = ErrNoToken /\ ~last.access

\* a Shutdown has been called
ShutdownCalled == sweeper = "exited" \/ \E c \in Callers : pc[c] = "shutdown"

\* C8: unless Shutdown is called, a stored record whose deadline is before now
\* is eventually gone from the store, and Check of its token then yields
\* ErrTokenNotFound.
C8_Swept ==
  \A k \in Ids : \A a \in Actions :
    (Hash(k) \in DOMAIN store /\ store[Hash(k)].ExpiresAt < clock)
      ~> (\/ ShutdownCalled
          \/ /\ Hash(k) \notin DOMAIN store
             /\ \A u \in CheckUsers :
                  CheckResult(store, Hash(k), a, u, clock) = ErrTokenNotFound)

\* the only nonce has been removed, and a Check has returned ErrTokenNotFound
C8_Witness ==
  /\ nextId = 1 /\ store = << >> /\ sweeper = "running"
  /\ last.op = "Check" /\ last.err = ErrTokenNotFound

\* the latest New that returned was given expiresIn = 0 and created the nonce
\* of token t for (a, u), and no call has consumed that nonce
FreshZero(t, a, u) ==
  /\ completedNew # << >>
  /\ LET new == completedNew[Len(completedNew)]
     IN  /\ new.zero
         /\ t = Hash(new.id) /\ a = new.action /\ u = new.uid
         /\ okConsumes[new.id] = 0

NewsFor(a, u) ==
  {i \in 1..Len(completedNew) : completedNew[i].action = a /\ completedNew[i].uid = u}

\* C10: in a sequential execution, after New calls for (a, u) whose records are
\* all still stored, Get(a, u) returns the record of the latest of them.
C10_GetLatest ==
  [][ \A a \in Actions, u \in Users :
        (/\ Get(SeqCaller, a, u)
         /\ NewsFor(a, u) # {}
         /\ \A i \in NewsFor(a, u) : Hash(completedNew[i].id) \in DOMAIN store)
          => LET latest == CHOOSE i \in NewsFor(a, u) : \A j \in NewsFor(a, u) : j <= i
             IN  /\ last'.op = "Get" /\ last'.err = Nil
                 /\ last'.n.ID = completedNew[latest].id
                 /\ last'.n = store[Hash(completedNew[latest].id)]
    ]_vars

\* Get has returned the second of two stored nonces of one pair and one second
C10_Witness ==
  /\ Len(completedNew) = 2
  /\ DOMAIN store = {Hash(1), Hash(2)}
  /\ store[Hash(1)].Action = store[Hash(2)].Action
  /\ store[Hash(1)].CreatedAt = store[Hash(2)].CreatedAt
  /\ last.op = "Get" /\ last.err = Nil /\ last.n.ID = completedNew[2].id

\* the stored records of (a, u)
RecordsFor(a, u) == {n \in Stored(store) : n.Action = a /\ n.UserID = u}

\* C11: Get(a, u) returns ErrTokenNotFound when the store holds no record of
\* (a, u), and returns the record when the store holds exactly one.
C11_GetNoneOrOne ==
  [][ \A a \in Actions, u \in CheckUsers :
        Get(SeqCaller, a, u) =>
          /\ RecordsFor(a, u) = {} =>
               last' = Event("Get", ErrTokenNotFound, ZeroNonce, TRUE)
          /\ \A r \in RecordsFor(a, u) :
               RecordsFor(a, u) = {r} => last' = Event("Get", Nil, r, TRUE)
    ]_vars

\* C12: every Shutdown call eventually returns, a Shutdown called after the
\* sweeper has exited included.
C12_ShutdownReturns ==
  \A c \in Callers : (pc[c] = "shutdown") ~> (pc[c] = "idle")

\* C13: Check leaves the store as it was, whatever the token, the action, the
\* user and the store, and whatever it returns.
C13_CheckPure ==
  [][ \A t \in TokenInputs, a \in Actions, u \in CheckUsers :
        Check(SeqCaller, "Check", t, a, u) => store' = store
    ]_vars

\* Check has returned nil for a stored nonce, which no call has consumed
C13_Witness ==
  /\ last.op = "Check" /\ last.err = Nil /\ last.access
  /\ nextId = 1 /\ Hash(1) \in DOMAIN store
  /\ ~store[Hash(1)].IsUsed /\ okConsumes[1] = 0

\* C14: New at any instant, given any expiresIn >= 0, returns a nonce that is
\* unused and valid, has the given action and user, and whose ExpiresAt is its
\* CreatedAt, in whole seconds, plus expiresIn, to the second.
C14_NewFields ==
  [][ /\ \A a \in Actions, u \in Users, d \in ExpiresIns :
           NewSave(SeqCaller, a, u, d) =>
             LET n == loc'[SeqCaller].n
             IN  /\ n.IsUsed = FALSE /\ n.IsValid = TRUE
                 /\ n.Action = a /\ n.UserID = u
                 /\ n.CreatedAt = Unix(clock)
                 /\ n.ExpiresAt = Truncate(n.CreatedAt * TicksPerSecond + d)
      /\ NewInvalidate(SeqCaller) =>
           last' = Event("New", Nil, loc[SeqCaller].n, TRUE)
    ]_vars

\* what a caller can tell of a returned error and record
Outcome(r) ==
  [err |-> r.err, UserID |-> r.n.UserID, Action |-> r.n.Action,
   IsUsed |-> r.n.IsUsed, IsValid |-> r.n.IsValid,
   CreatedAt |-> r.n.CreatedAt, ExpiresAt |-> r.n.ExpiresAt]

\* C15: in a sequential execution the two stores return the same outcome to
\* each call.  Both start empty, and Check and the lookup of Consume read the
\* store alike, so this is stated as: whenever a call may begin, Get has the
\* same outcomes on the store as it is whichever the Service, and New's save
\* and Consume's write leave the same store.
C15_SameOutcome ==
  pc[SeqCaller] = "idle" =>
    /\ \A a \in Actions, u \in CheckUsers :
         {Outcome(r) : r \in GetResults("inmem", store, a, u)}
           = {Outcome(r) : r \in GetResults("sqlx", store, a, u)}
    /\ \A t \in DOMAIN store :
         ConsumeWrite("inmem", store, store[t]) = ConsumeWrite("sqlx", store, store[t])
    /\ nextId < MaxNonces =>
         \A a \in Actions, u \in Users, d \in ExpiresIns :
           LET n0 == newNonce(a, u, d, clock, nextId + 1)
           IN  InMemSaveNonce(store, InMemAssignID(n0, nextId + 1))
                 = SqlxSaveNonce(store, n0, nextId + 1)

\* C16: when (a, u) has several records and the one created last, by
\* CreatedAt, is not valid, Get(a, u) returns ErrTokenNotFound, an older valid
\* record notwithstanding.
C16_NoFallback ==
  [][ \A c \in Callers, a \in Actions, u \in Users :
        (/\ Get(c, a, u)
         /\ Cardinality(RecordsFor(a, u)) > 1
         /\ \E r \in RecordsFor(a, u) :
              /\ ~r.IsValid
              /\ \A q \in RecordsFor(a, u) \ {r} : q.CreatedAt < r.CreatedAt)
          => last' = Event("Get", ErrTokenNotFound, ZeroNonce, TRUE)
    ]_vars

\* C17: a stored record that is not valid is not valid after any step that
\* keeps it, whichever way New, Consume, CheckThenConsume and the sweeper
\* interleave.
C17_SupersededStays ==
  [][ \A t \in DOMAIN store :
        (~store[t].IsValid /\ t \in DOMAIN store') => ~store'[t].IsValid
    ]_vars

\* C18: a pass of the sweeper removes the stored records whose deadline is
\* before now and no other, and leaves the others, one whose deadline is now
\* included, as they were; a step that is not a pass of the sweeper removes
\* no record.
C18_SweepExact ==
  [][ /\ SweeperPass =>
           /\ \A t \in DOMAIN store :
                IF store[t].ExpiresAt < clock
                  THEN t \notin DOMAIN store'
                  ELSE t \in DOMAIN store' /\ store'[t] = store[t]
           /\ \A t \in DOMAIN store' : t \in DOMAIN store
      /\ ~SweeperPass => \A t \in DOMAIN store : t \in DOMAIN store'
    ]_vars

\* of two nonces created, one has been removed and the one whose deadline is
\* now is stored
C18_Witness ==
  /\ nextId = 2 /\ sweeper = "running"
  /\ Cardinality(DOMAIN store) = 1
  /\ \A n \in Stored(store) : n.ExpiresAt = clock

\* C19: a failure of the database at any step of a sqlx sweep leaves the
\* sweeper running.
C19_SweeperSurvives ==
  [][ \A f \in SweepFaults : SweeperFault(f) => sweeper' = "running" ]_vars

\* C20: the sweeper exits on receiving from quit without a last sweep, a
\* Shutdown call returns only when it has, and once it has exited it stays so
\* and no record is removed from the store.
C20_StoppedForGood ==
  [][ /\ SweeperQuit => store' = store /\ sweeper' = "exited"
      /\ last'.op = "Shutdown" => sweeper' = "exited"
      /\ sweeper = "exited" =>
           /\ sweeper' = "exited"
           /\ \A t \in DOMAIN store : t \in DOMAIN store'
    ]_vars

\* after Shutdown, Check has found a nonce past its deadline still stored
C20_Witness ==
  /\ sweeper = "exited"
  /\ \E n \in Stored(store) : n.ExpiresAt < clock
  /\ last.op = "Check" /\ last.err = ErrTokenExpired

\* C21: Consume of a stored unused record goes on to its write whatever the
\* record's IsValid, Action, UserID and ExpiresAt, and returns nil with a used
\* record; its write, on a record still stored, sets IsUsed and changes
\* nothing else in the store.
C21_ConsumeUnconditional ==
  [][ \A c \in Callers :
        /\ \A t \in GoodTokens :
             (ConsumeGet(c, t) /\ t \in DOMAIN store /\ ~store[t].IsUsed)
               => pc'[c] = "consume_save" /\ loc'[c].n = store[t]
        /\ (ConsumeSave(c) /\ loc[c].op = "Consume") =>
             /\ last'.op = "Consume" /\ last'.err = Nil /\ last'.n.IsUsed
             /\ loc[c].tok \in DOMAIN store =>
                  store' = [store EXCEPT ![loc[c].tok] = [@ EXCEPT !.IsUsed = TRUE]]
    ]_vars

\* the k-th nonce was saved, by NewSave, and its record is gone from the
\* store: a pass of the sweeper has deleted it
Removed(k) == k <= nextId /\ Hash(k) \notin DOMAIN store

\* C22: once a pass of the sweeper has deleted the record of a token, a lookup
\* of the token yields ErrTokenNotFound and no step puts the record back,
\* Consume calls that began before the deletion included.
C22_RemovedStays ==
  [][ \A k \in Ids :
        Removed(k) =>
          /\ \A a \in Actions, u \in CheckUsers :
               CheckResult(store, Hash(k), a, u, clock) = ErrTokenNotFound
          /\ Hash(k) \notin DOMAIN store'
    ]_vars

\* C23: when every New call for (a, u) has returned and none of the records
\* they created has been removed or has expired, exactly one record of (a, u)
\* is valid, and Check returns nil for the token of one of them.
C23_OneSurvives ==
  \A a \in Actions, u \in Users :
    (/\ \A c \in Callers : pc[c] \notin {"new_save", "new_invalidate"}
     /\ NewsFor(a, u) # {}
     /\ \A i \in NewsFor(a, u) :
          /\ Hash(completedNew[i].id) \in DOMAIN store
          /\ store[Hash(completedNew[i].id)].ExpiresAt > clock)
      => /\ Cardinality(ValidFor(a, u)) = 1
         /\ \E i \in NewsFor(a, u) :
              CheckResult(store, Hash(completedNew[i].id), a, u, clock) = Nil

====
